---- MODULE Spec2Model ----
(***************************************************************************)
(* The PhonePrefix widget (phone-prefix.ts): a dropdown of countries bound *)
(* to the DOM.  Strings are sequences of one-character strings, so that    *)
(* startsWith, slice and toLowerCase are computed rather than assumed.  A  *)
(* DropdownItem is identified by its index in `items` (0 is undefined).    *)
(***************************************************************************)
EXTENDS Integers, Sequences, FiniteSets, TLC

VARIABLES
    pc,                 \* position of init(): "fetchCountries", "fetchUserLocation", "done"
    inFlight,           \* the requests fetch() was called for and that have not settled
    countriesFailed,    \* fetchCountries took its catch branch
    defaultCountryCode, \* constructor option (<<>> is undefined)
    items,              \* DropdownItem[]: the Country of each rendered item, in render order
    listIsOpen,         \* the component's list-open flag
    selectedItem,       \* index of the selected item, 0 when undefined
    focusedItem,        \* index of the item the focusin/focusout listeners recorded, 0 when undefined
    searchQuery,        \* the running search query
    itemSelected,       \* per item: carries the w--current class
    ariaSelected,       \* per item: the aria-selected attribute is "true" (absent and "false" are FALSE)
    toggleValue,        \* text of the toggle's value node
    toggleLabel,        \* aria-label of the toggle
    countryCodeInput,   \* the bound form input: [present, value]
    activeElement,      \* the document's focused element: [kind, index]
    listClassOpen,      \* the list element carries the w--open class
    observing,          \* the MutationObserver is attached
    mutationPending,    \* a mutation record awaits delivery (microtask)
    dispatched,         \* what the last handler did to the toggle and the event, in order
    thrown,             \* a handler has thrown a TypeError
    last                \* the input the last step handled (a click on an item, a keydown, a
                        \* delivered mutation record, or the response init resumed with and
                        \* the item it found; none for the other steps), with the selection,
                        \* focus or query it arrived at

vars == <<pc, inFlight, countriesFailed, defaultCountryCode, items, listIsOpen, selectedItem, focusedItem,
          searchQuery, itemSelected, ariaSelected, toggleValue, toggleLabel,
          countryCodeInput, activeElement, listClassOpen, observing,
          mutationPending, dispatched, thrown, last>>

-----------------------------------------------------------------------------
(* Bounds *)

MaxQuery == 3

-----------------------------------------------------------------------------
(* Characters and strings *)

UpperCase == <<"A","B","C","D","E","F","G","H","I","J","K","L","M",
               "N","O","P","Q","R","S","T","U","V","W","X","Y","Z">>

LowerCase == <<"a","b","c","d","e","f","g","h","i","j","k","l","m",
               "n","o","p","q","r","s","t","u","v","w","x","y","z">>

Digits == {"0","1","2","3","4","5","6","7","8","9"}

Range(s) == {s[i] : i \in 1..Len(s)}

Letters == Range(UpperCase) \cup Range(LowerCase)

\* String.prototype.toLowerCase on one character
lowerChar(c) ==
    IF c \in Range(UpperCase)
    THEN LowerCase[CHOOSE i \in 1..Len(UpperCase) : UpperCase[i] = c]
    ELSE c

toLowerCase(s) == [i \in 1..Len(s) |-> lowerChar(s[i])]

startsWith(s, p) ==
    /\ Len(p) <= Len(s)
    /\ \A i \in 1..Len(p) : s[i] = p[i]

\* s.slice(0, -1)
sliceDropLast(s) == IF Len(s) = 0 THEN s ELSE SubSeq(s, 1, Len(s) - 1)

\* /^[a-zA-Z]$/.test(s): exactly one character, a letter
isLetter(s) == Len(s) = 1 /\ s[1] \in Letters

\* /^[0-9]$/.test(s): exactly one character, a digit
isDigit(s) == Len(s) = 1 /\ s[1] \in Digits

-----------------------------------------------------------------------------
(* Countries *)

Undefined == <<>>

US == [name |-> <<"U","n","i","t","e","d"," ","S","t","a","t","e","s">>,
       cca2 |-> <<"U","S">>,
       root |-> <<"+","1">>,
       suffixes |-> << <<"2","0","1">>, <<"2","0","2">> >>]

FR == [name |-> <<"F","r","a","n","c","e">>,
       cca2 |-> <<"F","R">>,
       root |-> <<"+","3">>,
       suffixes |-> << <<"3">> >>]

FI == [name |-> <<"F","i","n","l","a","n","d">>,
       cca2 |-> <<"F","I">>,
       root |-> <<"+","3">>,
       suffixes |-> << <<"5","8">> >>]

\* the bodies the country endpoint answers with in this model
CountryLists == { <<>>, <<US, FI, FR>> }

CountryResponses ==
    {[ok |-> FALSE, body |-> <<>>]} \cup {[ok |-> TRUE, body |-> l] : l \in CountryLists}

\* the trace endpoint's text, as the lines text.match(/[^\r\n]+/g) yields
TraceTexts ==
    { << <<"h","=","x">> >>,
      << <<"h","=","x">>, <<"l","o","c","=","F","R">> >>,
      << <<"l","o","c","=","X","X">>, <<"t","l","s","=","1">> >>,
      << <<"l","o","c","=">> >> }

LocationResponses ==
    {[ok |-> FALSE, body |-> <<>>]} \cup {[ok |-> TRUE, body |-> t] : t \in TraceTexts}

DefaultCodes == {Undefined, US.cca2}

\* e.key of the keys pressed in this model
Backspace == <<"B","a","c","k","s","p","a","c","e">>
Space == <<" ">>
Tab == <<"T","a","b">>
ArrowUp == <<"A","r","r","o","w","U","p">>
ArrowDown == <<"A","r","r","o","w","D","o","w","n">>

CharKeys == { <<"F">>, <<"3">> }

Keys == CharKeys \cup {Backspace, Space, Tab, ArrowUp, ArrowDown}

-----------------------------------------------------------------------------
(* DOM elements *)

Body == [kind |-> "body", index |-> 0]
ToggleElement == [kind |-> "toggle", index |-> 0]
ItemElement(i) == [kind |-> "item", index |-> i]

\* the dialing prefix shown for a country: root, plus the suffix when there is exactly one
countryCode(country) ==
    country.root \o (IF Len(country.suffixes) = 1 THEN country.suffixes[1] ELSE <<>>)

-----------------------------------------------------------------------------
(* The widget as a record, threaded through the calls of one handler *)

Widget ==
    [items |-> items, listIsOpen |-> listIsOpen, selectedItem |-> selectedItem,
     focusedItem |-> focusedItem, searchQuery |-> searchQuery,
     itemSelected |-> itemSelected, ariaSelected |-> ariaSelected,
     toggleValue |-> toggleValue, toggleLabel |-> toggleLabel,
     countryCodeInput |-> countryCodeInput, activeElement |-> activeElement,
     listClassOpen |-> listClassOpen, mutationPending |-> mutationPending,
     observing |-> observing, dispatched |-> <<>>, thrown |-> thrown]

Commit(w) ==
    /\ items' = w.items
    /\ listIsOpen' = w.listIsOpen
    /\ selectedItem' = w.selectedItem
    /\ focusedItem' = w.focusedItem
    /\ searchQuery' = w.searchQuery
    /\ itemSelected' = w.itemSelected
    /\ ariaSelected' = w.ariaSelected
    /\ toggleValue' = w.toggleValue
    /\ toggleLabel' = w.toggleLabel
    /\ countryCodeInput' = w.countryCodeInput
    /\ activeElement' = w.activeElement
    /\ listClassOpen' = w.listClassOpen
    /\ mutationPending' = w.mutationPending
    /\ observing' = w.observing
    /\ dispatched' = w.dispatched
    /\ thrown' = w.thrown

\* element.focus() on item i: focusout on the item losing focus, focusin on i
focusItem(w, i) ==
    IF w.activeElement = ItemElement(i) THEN w
    ELSE [w EXCEPT !.activeElement = ItemElement(i), !.focusedItem = i]

\* dropdownToggle.focus(): focusout on the item losing focus
focusToggle(w) ==
    [w EXCEPT !.activeElement = ToggleElement,
              !.focusedItem = IF w.activeElement.kind = "item" THEN 0 ELSE @,
              !.dispatched = Append(@, "focus")]

\* mutant: the toggle is refocused whatever the argument says
closeDropdownAlwaysFocus(w, focusToggleArg, reacts) ==
    LET f == focusToggle(w)
        d == [f EXCEPT !.dispatched = @ \o <<"click", "mouseup">>]
    IN  IF reacts /\ d.listClassOpen
        THEN [d EXCEPT !.listClassOpen = FALSE,
                       !.mutationPending = @ \/ d.observing]
        ELSE d

\* closeDropdown: refocus the toggle if asked, then replay click and mouseup on
\* it.  The third-party dropdown owns the w--open class: `reacts` says whether
\* it removes the class while the events are dispatched.
closeDropdown(w, focusToggleArg, reacts) ==
    LET f == IF focusToggleArg THEN focusToggle(w) ELSE w
        d == [f EXCEPT !.dispatched = @ \o <<"click", "mouseup">>]
    IN  IF reacts /\ d.listClassOpen
        THEN [d EXCEPT !.listClassOpen = FALSE,
                       !.mutationPending = @ \/ d.observing]
        ELSE d

toggleItemSelected(w, i, isSelected) ==
    [w EXCEPT !.itemSelected[i] = isSelected,
              !.ariaSelected[i] = isSelected]

\* mutant: the toggle shows the root alone, the single suffix dropped
updateDropdownToggleRootOnly(w, i) ==
    [w EXCEPT !.toggleValue = w.items[i].root,
              !.toggleLabel = w.items[i].name]

updateDropdownToggle(w, i) ==
    [w EXCEPT !.toggleValue = countryCode(w.items[i]),
              !.toggleLabel = w.items[i].name]

\* mutant: the previous selection keeps its marker
handleItemSelectKeepsPrevious(w, i, reacts) ==
    IF w.selectedItem = i THEN w
    ELSE LET b == [toggleItemSelected(w, i, TRUE) EXCEPT !.selectedItem = i]
             c == updateDropdownToggle(b, i)
             d == IF c.countryCodeInput.present
                  THEN [c EXCEPT !.countryCodeInput.value = c.items[i].cca2] ELSE c
         IN  IF d.listIsOpen THEN closeDropdown(d, TRUE, reacts) ELSE d

\* mutant: no early return when the item is already selected
handleItemSelectAlways(w, i, reacts) ==
    LET a == IF w.selectedItem # 0
             THEN toggleItemSelected(w, w.selectedItem, FALSE) ELSE w
        b == [toggleItemSelected(a, i, TRUE) EXCEPT !.selectedItem = i]
        c == updateDropdownToggle(b, i)
        d == IF c.countryCodeInput.present
             THEN [c EXCEPT !.countryCodeInput.value = c.items[i].cca2] ELSE c
    IN  IF d.listIsOpen THEN closeDropdown(d, TRUE, reacts) ELSE d

handleItemSelect(w, i, reacts) ==
    IF w.selectedItem = i THEN w
    ELSE LET a == IF w.selectedItem # 0
                  THEN toggleItemSelected(w, w.selectedItem, FALSE) ELSE w
             b == [toggleItemSelected(a, i, TRUE) EXCEPT !.selectedItem = i]
             c == updateDropdownToggle(b, i)
             d == IF c.countryCodeInput.present
                  THEN [c EXCEPT !.countryCodeInput.value = c.items[i].cca2] ELSE c
         IN  IF d.listIsOpen THEN closeDropdown(d, TRUE, reacts) ELSE d


-----------------------------------------------------------------------------
(* Array.prototype.find / findIndex: the least index satisfying the test, 0 when none *)

matchesQuery(country, query) ==
    LET searchTerm == toLowerCase(query)
    IN  \/ startsWith(toLowerCase(countryCode(country)), <<"+">> \o searchTerm)
        \/ startsWith(toLowerCase(country.cca2), searchTerm)
        \/ startsWith(toLowerCase(country.name), searchTerm)

\* mutant: the last matching item instead of the first
findMatchLast(its, query) ==
    IF \E i \in 1..Len(its) : matchesQuery(its[i], query)
    THEN CHOOSE i \in 1..Len(its) :
            /\ matchesQuery(its[i], query)
            /\ \A j \in (i + 1)..Len(its) : ~matchesQuery(its[j], query)
    ELSE 0

findMatch(its, query) ==
    IF \E i \in 1..Len(its) : matchesQuery(its[i], query)
    THEN CHOOSE i \in 1..Len(its) :
            /\ matchesQuery(its[i], query)
            /\ \A j \in 1..(i - 1) : ~matchesQuery(its[j], query)
    ELSE 0

findByCode(its, code) ==
    IF \E i \in 1..Len(its) : its[i].cca2 = code
    THEN CHOOSE i \in 1..Len(its) :
            /\ its[i].cca2 = code
            /\ \A j \in 1..(i - 1) : its[j].cca2 # code
    ELSE 0

\* the query after one key, lines 171-187
nextQuery(query, key) ==
    IF key = Backspace THEN sliceDropLast(query)
    ELSE IF Len(key) = 1 /\ (isLetter(key) \/ isDigit(key))
    THEN IF isDigit(key) /\ isLetter(query) THEN key
         ELSE IF isLetter(key)
              THEN IF isDigit(query) THEN key ELSE query \o toLowerCase(key)
              ELSE IF isDigit(key) THEN query \o key ELSE query
    ELSE query

\* mutant: no early return while the list-open flag is false
handleDropdownSearchNoGuard(w, key) ==
    LET a == [w EXCEPT !.searchQuery = nextQuery(w.searchQuery, key)]
        matchedItem == findMatch(a.items, a.searchQuery)
    IN  IF Len(a.searchQuery) > 0 /\ matchedItem # 0
        THEN focusItem(a, matchedItem) ELSE a

handleDropdownSearch(w, key) ==
    IF ~w.listIsOpen THEN w
    ELSE LET a == [w EXCEPT !.searchQuery = nextQuery(w.searchQuery, key)]
             matchedItem == findMatch(a.items, a.searchQuery)
         IN  IF Len(a.searchQuery) > 0 /\ matchedItem # 0
             THEN focusItem(a, matchedItem) ELSE a

\* the index ArrowUp / ArrowDown computes, lines 231-233 (1-based: Len + 1 is out of range)
nextIndex(index, isArrowUp, length) ==
    LET n == IF isArrowUp THEN index - 1 ELSE index + 1
    IN  IF n < 1 THEN 1 ELSE IF n > length THEN length + 1 ELSE n

handleDropdownNavigation(w, key, shiftKey, reacts) ==
    IF ~w.listIsOpen THEN w
    ELSE LET a == IF key = Space /\ w.focusedItem # 0
                  THEN handleItemSelect(w, w.focusedItem, reacts) ELSE w
             p == IF key = Tab /\ shiftKey
                  THEN [a EXCEPT !.dispatched = Append(@, "preventDefault")] ELSE a
             b == IF key = Tab THEN closeDropdown(p, shiftKey, reacts) ELSE p
         IN  IF key \in {ArrowUp, ArrowDown} /\ b.focusedItem # 0
             THEN LET n == nextIndex(b.focusedItem, key = ArrowUp, Len(b.items))
                  IN  IF n \in 1..Len(b.items) THEN focusItem(b, n) ELSE b
             ELSE b

\* the keydown listener on the list: search, then navigation (lines 135-138)
keydownListener(w, key, shiftKey, reacts) ==
    handleDropdownNavigation(handleDropdownSearch(w, key), key, shiftKey, reacts)

\* mutant: the query survives the observer reporting the list open
observerCallbackKeepsQuery(w) ==
    LET a == [w EXCEPT !.listIsOpen = w.listClassOpen, !.mutationPending = FALSE]
    IN  IF ~a.listIsOpen THEN a
        ELSE IF a.selectedItem # 0 THEN focusItem(a, a.selectedItem)
        ELSE IF Len(a.items) = 0 THEN [a EXCEPT !.thrown = TRUE]
        ELSE focusItem(a, 1)

\* the MutationObserver callback (lines 152-157)
observerCallback(w) ==
    LET a == [w EXCEPT !.listIsOpen = w.listClassOpen, !.mutationPending = FALSE]
    IN  IF ~a.listIsOpen THEN a
        ELSE LET b == [a EXCEPT !.searchQuery = <<>>]
             IN  IF b.selectedItem # 0 THEN focusItem(b, b.selectedItem)
                 ELSE IF Len(b.items) = 0 THEN [b EXCEPT !.thrown = TRUE]
                 ELSE focusItem(b, 1)

-----------------------------------------------------------------------------
(* The two fetches *)

fetchCountries(response) == IF response.ok THEN response.body ELSE <<>>

\* line.split("=")[1]: the text between the first "=" and the next one
splitSecond(line) ==
    LET eqs == {i \in 1..Len(line) : line[i] = "="}
    IN  IF eqs = {} THEN Undefined
        ELSE LET first == CHOOSE i \in eqs : \A j \in eqs : i <= j
                 rest == {i \in eqs : i > first}
                 stop == IF rest = {} THEN Len(line) + 1
                         ELSE CHOOSE i \in rest : \A j \in rest : i <= j
             IN  SubSeq(line, first + 1, stop - 1)

\* mutant: the value of the first line, whatever its key
fetchUserLocationFirstLine(response) ==
    IF ~response.ok \/ Len(response.body) = 0 THEN Undefined
    ELSE splitSecond(response.body[1])

fetchUserLocation(response) ==
    IF ~response.ok THEN Undefined
    ELSE LET lines == response.body
             hits == {i \in 1..Len(lines) : startsWith(lines[i], <<"l","o","c">>)}
         IN  IF hits = {} THEN Undefined
             ELSE splitSecond(lines[CHOOSE i \in hits : \A j \in hits : i <= j])

\* mutant: the default is never used
effectiveCodeNoDefault(loc, default) == loc

\* mutant: the default wins over the detected location
effectiveCodeDefaultFirst(loc, default) == IF Len(default) > 0 THEN default ELSE loc

\* countryCode || defaultCountryCode: undefined and "" are both falsy
effectiveCode(loc, default) == IF Len(loc) > 0 THEN loc ELSE default

renderOptions(w, countries, template) ==
    IF ~template THEN w
    ELSE [w EXCEPT !.items = countries,
                   !.itemSelected = [i \in 1..Len(countries) |-> FALSE],
                   !.ariaSelected = [i \in 1..Len(countries) |-> FALSE]]

NoResponse == [ok |-> FALSE, body |-> <<>>]

\* a keydown is recorded with the item focused when it arrived, a click and init's
\* selection with the item selected when they arrived, a mutation record with the
\* query it arrived at
Input(op, key, shiftKey, item, response) ==
    [op |-> op, key |-> key, shiftKey |-> shiftKey, item |-> item, response |-> response,
     selectedItem |-> IF op \in {"click", "init"} THEN selectedItem ELSE 0,
     focusedItem |-> IF op = "keydown" THEN focusedItem ELSE 0,
     searchQuery |-> IF op = "observer" THEN searchQuery ELSE <<>>]

NoInput ==
    [op |-> "none", key |-> <<>>, shiftKey |-> FALSE, item |-> 0, response |-> NoResponse,
     selectedItem |-> 0, focusedItem |-> 0, searchQuery |-> <<>>]

-----------------------------------------------------------------------------
(* Initial state: the constructor has run and init() awaits the country fetch *)

\* mutant: both requests are issued when init starts
InitBothRequested ==
    /\ pc = "fetchCountries"
    /\ inFlight = {"countries", "location"}
    /\ countriesFailed = FALSE
    /\ defaultCountryCode \in DefaultCodes
    /\ items = <<>>
    /\ listIsOpen = FALSE
    /\ selectedItem = 0
    /\ focusedItem = 0
    /\ searchQuery = <<>>
    /\ itemSelected = <<>>
    /\ ariaSelected = <<>>
    /\ toggleValue = <<>>
    /\ toggleLabel = <<>>
    /\ countryCodeInput \in {[present |-> p, value |-> <<>>] : p \in BOOLEAN}
    /\ activeElement = Body
    /\ listClassOpen = FALSE
    /\ observing = FALSE
    /\ mutationPending = FALSE
    /\ dispatched = <<>>
    /\ thrown = FALSE
    /\ last = NoInput

Init ==
    /\ pc = "fetchCountries"
    /\ inFlight = {"countries"}
    /\ countriesFailed = FALSE
    /\ defaultCountryCode \in DefaultCodes
    /\ items = <<>>
    /\ listIsOpen = FALSE
    /\ selectedItem = 0
    /\ focusedItem = 0
    /\ searchQuery = <<>>
    /\ itemSelected = <<>>
    /\ ariaSelected = <<>>
    /\ toggleValue = <<>>
    /\ toggleLabel = <<>>
    /\ countryCodeInput \in {[present |-> p, value |-> <<>>] : p \in BOOLEAN}
    /\ activeElement = Body
    /\ listClassOpen = FALSE
    /\ observing = FALSE
    /\ mutationPending = FALSE
    /\ dispatched = <<>>
    /\ thrown = FALSE
    /\ last = NoInput

\* mutant: the default is selected as soon as the items are rendered
CountriesSettledSelectsDefault ==
    /\ pc = "fetchCountries"
    /\ ~mutationPending
    /\ \E response \in CountryResponses, template \in BOOLEAN :
          /\ \E w \in {renderOptions(Widget, fetchCountries(response), template)} :
                LET selectedCountry == findByCode(w.items, defaultCountryCode)
                IN  \E v \in {IF selectedCountry # 0
                               THEN handleItemSelect(w, selectedCountry, FALSE) ELSE w} :
                       Commit([v EXCEPT !.observing = TRUE])
          /\ countriesFailed' = ~response.ok
    /\ pc' = "fetchUserLocation"
    /\ inFlight' = (inFlight \ {"countries"}) \cup {"location"}
    /\ last' = NoInput
    /\ UNCHANGED defaultCountryCode

\* init() resumes after `await this.fetchCountries()`: lines 68-73
CountriesSettled ==
    /\ pc = "fetchCountries"
    /\ ~mutationPending
    /\ \E response \in CountryResponses, template \in BOOLEAN :
          /\ \E w \in {renderOptions(Widget, fetchCountries(response), template)} :
                Commit([w EXCEPT !.observing = TRUE])
          /\ countriesFailed' = ~response.ok
    /\ pc' = "fetchUserLocation"
    /\ inFlight' = (inFlight \ {"countries"}) \cup {"location"}
    /\ last' = NoInput
    /\ UNCHANGED defaultCountryCode

\* init() resumes after `await this.fetchUserLocation()`: lines 73-79
LocationSettled ==
    /\ pc = "fetchUserLocation"
    /\ ~mutationPending
    /\ \E response \in LocationResponses, reacts \in BOOLEAN :
          LET loc == fetchUserLocation(response)
              selectedCountry == findByCode(items, effectiveCode(loc, defaultCountryCode))
          IN  /\ \E w \in {IF selectedCountry # 0
                            THEN handleItemSelect(Widget, selectedCountry, reacts)
                            ELSE Widget} : Commit(w)
              /\ last' = Input("init", <<>>, FALSE, selectedCountry, response)
    /\ pc' = "done"
    /\ inFlight' = inFlight \ {"location"}
    /\ UNCHANGED <<defaultCountryCode, countriesFailed>>

\* the third-party dropdown adds the w--open class to the list
ListOpened ==
    /\ ~mutationPending
    /\ ~listClassOpen
    /\ Commit([Widget EXCEPT !.listClassOpen = TRUE, !.mutationPending = observing])
    /\ last' = NoInput
    /\ UNCHANGED <<pc, inFlight, countriesFailed, defaultCountryCode>>

\* the third-party dropdown removes the w--open class from the list
ListClosed ==
    /\ ~mutationPending
    /\ listClassOpen
    /\ Commit([Widget EXCEPT !.listClassOpen = FALSE, !.mutationPending = observing])
    /\ last' = NoInput
    /\ UNCHANGED <<pc, inFlight, countriesFailed, defaultCountryCode>>

\* the mutation record is delivered: a microtask, before any other event
ObserverCallback ==
    /\ mutationPending
    /\ \E w \in {observerCallback(Widget)} : Commit(w)
    /\ last' = Input("observer", <<>>, FALSE, 0, NoResponse)
    /\ UNCHANGED <<pc, inFlight, countriesFailed, defaultCountryCode>>

\* the user clicks a visible item: its click listener (line 141)
ItemClick(i) ==
    /\ ~mutationPending
    /\ pc # "fetchCountries"
    /\ listClassOpen
    /\ i \in 1..Len(items)
    /\ \E reacts \in BOOLEAN : \E w \in {handleItemSelect(Widget, i, reacts)} : Commit(w)
    /\ last' = Input("click", <<>>, FALSE, i, NoResponse)
    /\ UNCHANGED <<pc, inFlight, countriesFailed, defaultCountryCode>>

\* the user moves focus onto a visible item: its focusin listener (lines 142-144)
\* after the focusout listener of the item losing focus
ItemFocusIn(i) ==
    /\ ~mutationPending
    /\ pc # "fetchCountries"
    /\ listClassOpen
    /\ i \in 1..Len(items)
    /\ activeElement # ItemElement(i)
    /\ Commit(focusItem(Widget, i))
    /\ last' = NoInput
    /\ UNCHANGED <<pc, inFlight, countriesFailed, defaultCountryCode>>

\* the user moves focus off the items: the focusout listener (lines 145-147)
ItemFocusOut ==
    /\ ~mutationPending
    /\ activeElement.kind = "item"
    /\ Commit([Widget EXCEPT !.activeElement = Body, !.focusedItem = 0])
    /\ last' = NoInput
    /\ UNCHANGED <<pc, inFlight, countriesFailed, defaultCountryCode>>

\* a key goes down on a focused item and bubbles to the list (lines 135-138)
KeyDown(key, shiftKey) ==
    /\ ~mutationPending
    /\ activeElement.kind = "item"
    /\ \E reacts \in BOOLEAN :
          \E w \in {keydownListener(Widget, key, shiftKey, reacts)} :
              /\ Len(w.searchQuery) <= MaxQuery
              /\ Commit(w)
    /\ last' = Input("keydown", key, shiftKey, 0, NoResponse)
    /\ UNCHANGED <<pc, inFlight, countriesFailed, defaultCountryCode>>

Next ==
    \/ CountriesSettled
    \/ LocationSettled
    \/ ListOpened
    \/ ListClosed
    \/ ObserverCallback
    \/ \E i \in 1..Len(items) : ItemClick(i)
    \/ \E i \in 1..Len(items) : ItemFocusIn(i)
    \/ ItemFocusOut
    \/ \E key \in Keys : KeyDown(key, FALSE)
    \/ KeyDown(Tab, TRUE)

Spec == Init /\ [][Next]_vars

-----------------------------------------------------------------------------
(* Properties *)

\* the rendered items carrying the selected marker (class w--current or aria-selected="true")
Marked == {i \in 1..Len(items) : itemSelected[i] \/ ariaSelected[i]}

ExactlyOneMarked == Cardinality(Marked) = 1

InitCompletes == pc = "fetchUserLocation" /\ pc' = "done"

\* the least index of a nonempty set of item indices
First(S) == CHOOSE i \in S : \A j \in S : i <= j

\* the rendered items whose ISO code is `code`
ItemsWithCode(code) == {i \in 1..Len(items) : items[i].cca2 = code}

\* C1: in every reachable state at most one rendered item carries the selected
\* marker, and an item that carries it is the recorded current selection.
AtMostOneSelected ==
    /\ Cardinality(Marked) <= 1
    /\ \A i \in Marked : selectedItem = i

\* C1 witness: a click has just moved the selection from one item to another
\* after init completed, and the clicked item alone is marked.
SelectionMovedByClick ==
    /\ pc = "done"
    /\ last.op = "click"
    /\ last.selectedItem \notin {0, last.item}
    /\ Marked = {last.item}

\* C2 as stated: once init has completed exactly one rendered item carries the
\* selected marker, whatever was fetched and configured.
ExactlyOneAfterInit == pc = "done" => ExactlyOneMarked

\* the country code init resolves from a trace response: the value of its first
\* loc line, else the configured default
ResolvedCode(response) ==
    LET loc == fetchUserLocation(response)
    IN  IF loc # <<>> THEN loc ELSE defaultCountryCode

\* C2 amended: when init completes with a resolved code (location, else default)
\* that matches a rendered item, exactly one item is marked in that state, and
\* once exactly one item is marked exactly one is marked in every later state;
\* when the resolved code matches nothing init leaves the selection as it was;
\* never is more than one item marked.
ExactlyOneOnceMatched ==
    [][ /\ (InitCompletes /\ ItemsWithCode(ResolvedCode(last'.response)) # {})
            => ExactlyOneMarked'
        /\ (InitCompletes /\ ItemsWithCode(ResolvedCode(last'.response)) = {})
            => (selectedItem' = selectedItem /\ Marked' = Marked)
        /\ ExactlyOneMarked => ExactlyOneMarked'
        /\ Cardinality(Marked') <= 1 ]_vars

\* C2 witness: init has just completed by selecting the item it matched.
InitSelectedMatch ==
    /\ pc = "done"
    /\ last.op = "init"
    /\ last.item # 0
    /\ Marked = {last.item}

\* C3: when the location fetch resolves to a code that matches a rendered item,
\* the selection init makes is that item, whatever the default is.
LocationOverridesDefault ==
    [][ (InitCompletes /\ ItemsWithCode(fetchUserLocation(last'.response)) # {})
        => /\ selectedItem' = First(ItemsWithCode(fetchUserLocation(last'.response)))
           /\ Marked' = {selectedItem'} ]_vars

\* C3 witness: the location resolved to FR with default US, and FR is selected.
LocationChosenOverDefault ==
    /\ pc = "done"
    /\ last.op = "init"
    /\ fetchUserLocation(last.response) = FR.cca2
    /\ defaultCountryCode = US.cca2
    /\ selectedItem # 0
    /\ items[selectedItem] = FR

\* the location fetch failed, or its text has no line starting with loc
NoLocation(response) ==
    \/ ~response.ok
    \/ \A i \in 1..Len(response.body) : ~startsWith(response.body[i], <<"l","o","c">>)

\* C4: when the location fetch fails or yields no loc line and the default
\* matches a rendered item, the selection init makes is the default's item.
DefaultUsedWithoutLocation ==
    [][ (InitCompletes /\ NoLocation(last'.response)
            /\ ItemsWithCode(defaultCountryCode) # {})
        => /\ selectedItem' = First(ItemsWithCode(defaultCountryCode))
           /\ Marked' = {selectedItem'} ]_vars

\* C4 witness: the location fetch failed and the default US is selected.
DefaultChosenAfterFailure ==
    /\ pc = "done"
    /\ last.op = "init"
    /\ ~last.response.ok
    /\ defaultCountryCode = US.cca2
    /\ selectedItem # 0
    /\ items[selectedItem] = US

\* the step selects item last'.item (by a click or by init) while another one is selected
SelectsAnother ==
    /\ last'.op \in {"click", "init"}
    /\ last'.item # 0
    /\ selectedItem \notin {0, last'.item}

\* the dialing prefix of a country: the root, plus the suffix only when it has exactly one
DialingPrefix(country) ==
    IF Len(country.suffixes) = 1 THEN country.root \o country.suffixes[1] ELSE country.root

SelectSameIsNoOp ==
    [][ (last'.op \in {"click", "init"} /\ last'.item # 0 /\ last'.item = selectedItem)
        => /\ UNCHANGED <<selectedItem, itemSelected, ariaSelected, toggleValue,
                          toggleLabel, countryCodeInput, focusedItem, activeElement,
                          searchQuery, listIsOpen, listClassOpen>>
           /\ dispatched' = <<>> ]_vars

\* C6 witness: the selected item was clicked while the list-open flag is set.
ClickedSelectedWhileOpen ==
    /\ last.op = "click"
    /\ last.item # 0
    /\ last.item = last.selectedItem
    /\ selectedItem = last.item
    /\ listIsOpen
    /\ dispatched = <<>>

\* C7 as stated: the query is empty, all lower-case letters, or all digits.
QueryLettersOrDigits ==
    \/ \A i \in 1..Len(searchQuery) : searchQuery[i] \in Range(LowerCase)
    \/ \A i \in 1..Len(searchQuery) : searchQuery[i] \in Digits

Alphabetic(q) == Len(q) >= 1 /\ \A i \in 1..Len(q) : q[i] \in Letters

Numeric(q) == Len(q) >= 1 /\ \A i \in 1..Len(q) : q[i] \in Digits

\* C8 as stated: with the list open, a digit key on an alphabetic query (of any
\* length) makes the query that digit, a letter key on a numeric query (of any
\* length) makes it that letter, and otherwise the key appends one character.
MixedModeReset ==
    [][ (last'.op = "keydown" /\ listIsOpen /\ (isLetter(last'.key) \/ isDigit(last'.key)))
        => searchQuery' =
              IF isDigit(last'.key) /\ Alphabetic(searchQuery) THEN last'.key
              ELSE IF isLetter(last'.key) /\ Numeric(searchQuery) THEN last'.key
              ELSE searchQuery \o toLowerCase(last'.key) ]_vars

\* the claim's match: the dialing prefix after its "+", the ISO code or the
\* common name starts with the query, case-insensitively
StartsWithIgnoringCase(s, q) ==
    /\ Len(q) <= Len(s)
    /\ \A i \in 1..Len(q) : lowerChar(s[i]) = lowerChar(q[i])

Matching(q) ==
    {i \in 1..Len(items) :
        \/ /\ Len(DialingPrefix(items[i])) > 0
           /\ Head(DialingPrefix(items[i])) = "+"
           /\ StartsWithIgnoringCase(Tail(DialingPrefix(items[i])), q)
        \/ StartsWithIgnoringCase(items[i].cca2, q)
        \/ StartsWithIgnoringCase(items[i].name, q)}

SearchKeys == CharKeys \cup {Backspace}

\* C9: after a search keystroke with the list open that leaves the query
\* non-empty, focus is on the first item in render order that matches the
\* query; when none matches, focus is where it was.
SearchFocusesFirstMatch ==
    [][ (last'.op = "keydown" /\ last'.key \in SearchKeys /\ listIsOpen
            /\ Len(searchQuery') > 0)
        => IF Matching(searchQuery') = {}
           THEN focusedItem' = focusedItem /\ activeElement' = activeElement
           ELSE /\ focusedItem' = First(Matching(searchQuery'))
                /\ activeElement' = ItemElement(focusedItem') ]_vars

\* C9 witness: "3" then "3" moved focus from FI, the first +3 item, to FR (+33).
SearchNarrowedFocus ==
    /\ last.op = "keydown"
    /\ last.key = <<"3">>
    /\ listIsOpen
    /\ searchQuery = <<"3","3">>
    /\ last.focusedItem # 0
    /\ items[last.focusedItem] = FI
    /\ focusedItem # 0
    /\ items[focusedItem] = FR

\* C10 as stated: with the list open, Space with item f focused selects f.
SpaceSelectsFocused ==
    [][ (last'.op = "keydown" /\ last'.key = Space /\ listIsOpen /\ focusedItem # 0)
        => selectedItem' = focusedItem ]_vars

\* C11 as stated: with the list open and the item at index i focused when the
\* key goes down, ArrowUp moves focus to i-1 (i > first) and ArrowDown to i+1
\* (i < last), whatever the query is.
ArrowsMoveFromFocused ==
    [][ (last'.op = "keydown" /\ listIsOpen /\ focusedItem # 0)
        => /\ (last'.key = ArrowUp /\ focusedItem > 1)
                => focusedItem' = focusedItem - 1
           /\ (last'.key = ArrowDown /\ focusedItem < Len(items))
                => focusedItem' = focusedItem + 1 ]_vars

\* C12 as stated: after a failed country fetch the item list is empty, the
\* observer is attached, the location fetch is made, init completes with no
\* selection, and no later event reaches an error.
CountryFailureDegrades ==
    countriesFailed =>
        /\ items = <<>>
        /\ observing
        /\ pc \in {"fetchUserLocation", "done"}
        /\ (pc = "fetchUserLocation") = ("location" \in inFlight)
        /\ selectedItem = 0
        /\ ~thrown

TabPressed(shiftKey) ==
    last'.op = "keydown" /\ last'.key = Tab /\ last'.shiftKey = shiftKey /\ listIsOpen

FetchesConcurrent ==
    "countries" \in inFlight => ("location" \in inFlight \/ pc = "done")

\* C14 amended: the fetches run one after the other; at most one request is in
\* flight, and the location request is in flight only after the country fetch
\* has settled, the items are rendered and the observer is attached.
FetchesSequential ==
    /\ Cardinality(inFlight) <= 1
    /\ "countries" \in inFlight => (pc = "fetchCountries" /\ ~observing /\ items = <<>>)
    /\ "location" \in inFlight => (pc = "fetchUserLocation" /\ observing)

\* C14 witness: the location request is in flight with the three items rendered.
LocationRequestedAfterRender ==
    /\ inFlight = {"location"}
    /\ observing
    /\ Len(items) = 3

\* C15: init selects only on resuming from the location fetch, with no request
\* left in flight and the items rendered; while a request is in flight the
\* selection changes only by a click or a key.
AutoSelectAfterBothSettle ==
    [][ /\ last'.op = "init"
            => (inFlight' = {} /\ "countries" \notin inFlight /\ observing /\ items' = items)
        /\ (inFlight' # {} /\ selectedItem' # selectedItem)
            => last'.op \in {"click", "keydown"}
        /\ (inFlight' # {} /\ Marked' # Marked)
            => last'.op \in {"click", "keydown"} ]_vars

\* C15 witness: init has selected an item, with nothing selected before and no
\* request in flight.
AutoSelectedOnceSettled ==
    /\ inFlight = {}
    /\ last.op = "init"
    /\ last.item # 0
    /\ last.selectedItem = 0
    /\ selectedItem = last.item

\* C16 as stated: with the list open, ArrowUp with the first item focused and
\* ArrowDown with the last item focused leave the focused item and the focused
\* element as they were when the key went down.
ArrowsStayAtBoundary ==
    [][ (/\ last'.op = "keydown"
         /\ listIsOpen
         /\ \/ (last'.key = ArrowUp /\ focusedItem = 1)
            \/ (last'.key = ArrowDown /\ focusedItem # 0 /\ focusedItem = Len(items)))
        => /\ focusedItem' = focusedItem
           /\ activeElement' = activeElement ]_vars

\* C17: while the list-open flag is false a keydown on the list changes neither
\* the query, the focused item, the selection, the toggle display, the bound
\* input nor the open class, and dispatches nothing on the toggle.
KeydownWhileClosedIsNoOp ==
    [][ (last'.op = "keydown" /\ ~listIsOpen)
        => /\ UNCHANGED <<searchQuery, focusedItem, activeElement, selectedItem,
                          itemSelected, ariaSelected, toggleValue, toggleLabel,
                          countryCodeInput, listClassOpen, listIsOpen>>
           /\ dispatched' = <<>> ]_vars

\* C17 witness: a letter went down on a focused item while the flag was false
\* and the container carried the open class; the query is still empty.
LetterIgnoredWhileFlagFalse ==
    /\ last.op = "keydown"
    /\ last.key \in CharKeys
    /\ last.focusedItem # 0
    /\ ~listIsOpen
    /\ listClassOpen
    /\ searchQuery = <<>>
    /\ focusedItem = last.focusedItem

\* C18: the observer callback sets the flag from the class; it empties the query
\* when the class is there and leaves the query alone when it is not; the flag
\* never turns true with a query carried over, and no step that removes the
\* class or turns the flag false touches the query.
QueryResetOnOpenOnly ==
    [][ /\ last'.op = "observer"
            => /\ listIsOpen' = listClassOpen
               /\ listClassOpen => searchQuery' = <<>>
               /\ ~listClassOpen => searchQuery' = searchQuery
        /\ (~listIsOpen /\ listIsOpen') => searchQuery' = <<>>
        /\ (listClassOpen /\ ~listClassOpen') => searchQuery' = searchQuery
        /\ (listIsOpen /\ ~listIsOpen') => searchQuery' = searchQuery ]_vars

\* C18 witness: a query typed in an earlier open period survived the close and
\* was emptied by the observer reporting the next open.
StaleQueryCleared ==
    /\ last.op = "observer"
    /\ last.searchQuery # <<>>
    /\ listIsOpen
    /\ searchQuery = <<>>

\* C19 as stated: with the observer attached and no mutation record pending,
\* the list-open flag equals whether the container carries the open class.
FlagTracksClass ==
    (observing /\ ~mutationPending) => (listIsOpen = listClassOpen)

\* C20 as stated: when the observer reports the list open a focus target
\* exists, the callback reaches no error, and focus lands on the selected item
\* if there is one and on the first item otherwise.
OpenFocusTargetExists ==
    [][ (last'.op = "observer" /\ listClassOpen)
        => /\ selectedItem # 0 \/ Len(items) > 0
           /\ thrown' = thrown
           /\ activeElement' = ItemElement(IF selectedItem # 0 THEN selectedItem ELSE 1) ]_vars

====
